---- MODULE Spec2Model ----
(***************************************************************************)
(* Model of the projection engine of the debt planner (src/src/script.js,  *)
(* runSimulation and the helpers it calls).                                *)
(*                                                                         *)
(* Representation.  Money is fixed point, in hundredths of a currency      *)
(* unit (2500.00 is 250000); an annual rate is in tenths of a percent      *)
(* (86.5% is 865).  A product followed by a division is truncated where    *)
(* the source computes in binary floating point.  A calendar date is the   *)
(* day key year*10000 + month*100 + day (month 1..12), which orders dates  *)
(* as the source's Date comparison does; 0 stands for null.                *)
(***************************************************************************)
EXTENDS Integers, Sequences, FiniteSets, TLC

Min2(a, b) == IF a <= b THEN a ELSE b
Max2(a, b) == IF a >= b THEN a ELSE b

RECURSIVE SumSeq(_)
SumSeq(s) == IF Len(s) = 0 THEN 0 ELSE s[1] + SumSeq(Tail(s))

(* ----------------------------- thresholds ------------------------------ *)
EPS == 50          \* 0.5: "close enough to zero"
SNAP == 100        \* 1: balance snap-to-zero, and minimum cash worth allocating
FREE == 500        \* 5: aggregate debt / goal shortfall counted as zero
MAX_ITERS == 120
MAX_OBS == 240
DEFAULT_DUE_DAY == 25
NO_PRIORITY == 999

(* ------------------------------- dates --------------------------------- *)
MkDate(y, m, d) == y * 10000 + m * 100 + d
getFullYear(k) == k \div 10000
getMonth(k) == ((k \div 100) % 100) - 1       \* 0-based, as Date.getMonth
getDate(k) == k % 100

IsLeap(y) == (y % 4 = 0 /\ y % 100 # 0) \/ y % 400 = 0

\* number of days of month m (1..12) of year y
DaysInMonth(y, m) ==
    IF m = 2 THEN (IF IsLeap(y) THEN 29 ELSE 28)
    ELSE IF m \in {4, 6, 9, 11} THEN 30 ELSE 31

\* new Date(year, monthIndex0, day) for monthIndex0 in 0..12 and day in
\* 0..31: month 12 rolls into January of the next year, day 0 is the last
\* day of the previous month, a day past the month's end rolls over.
NewDate(year, monthIndex0, day) ==
    LET y1 == IF monthIndex0 > 11 THEN year + 1 ELSE year
        m1 == IF monthIndex0 > 11 THEN monthIndex0 - 12 + 1 ELSE monthIndex0 + 1
    IN  IF day = 0
        THEN LET yp == IF m1 = 1 THEN y1 - 1 ELSE y1
                 mp == IF m1 = 1 THEN 12 ELSE m1 - 1
             IN  MkDate(yp, mp, DaysInMonth(yp, mp))
        ELSE IF day > DaysInMonth(y1, m1)
        THEN LET yn == IF m1 = 12 THEN y1 + 1 ELSE y1
                 mn == IF m1 = 12 THEN 1 ELSE m1 + 1
             IN  MkDate(yn, mn, day - DaysInMonth(y1, m1))
        ELSE MkDate(y1, m1, day)

makeDueDate(year, monthIndex0, dueDay) ==
    LET lastDay == getDate(NewDate(year, monthIndex0 + 1, 0))
        d == Min2(dueDay, lastDay)
    IN  NewDate(year, monthIndex0, d)

\* debt.dueDay = 0 stands for null / not a number
getDueDayOrDefault(debt) ==
    IF debt.dueDay > 0 THEN Min2(debt.dueDay, 31) ELSE DEFAULT_DUE_DAY

getFirstDueDate(simStartDate, debt) ==
    LET dueDay == getDueDayOrDefault(debt)
        y0 == getFullYear(simStartDate)
        m0 == getMonth(simStartDate)
        candidate == makeDueDate(y0, m0, dueDay)
        y == IF m0 + 1 > 11 THEN y0 + 1 ELSE y0
        m == IF m0 + 1 > 11 THEN 0 ELSE m0 + 1
    IN  IF candidate >= simStartDate THEN candidate ELSE makeDueDate(y, m, dueDay)

(* ---------------------- minimum-payment approximator ------------------- *)
\* the regulatory floor without the cap at what is owed
computeBanxicoMonthlyComponentsUncapped(prevBalance, annualRate, creditLimit) ==
    IF prevBalance <= 0 \/ annualRate <= 0
    THEN [monthlyInterest |-> 0, monthlyIVA |-> 0, base1p5 |-> 0,
          optionA |-> 0, optionB |-> 0, baseMin |-> 0]
    ELSE LET monthlyInterest == (prevBalance * annualRate) \div 12000
             monthlyIVA == (monthlyInterest * 16) \div 100
             base1p5 == (prevBalance * 15) \div 1000
             optionA == base1p5 + monthlyInterest + monthlyIVA
             optionB == IF creditLimit > 0 THEN (creditLimit * 125) \div 10000 ELSE 0
             baseMin == Max2(optionA, optionB)
         IN  [monthlyInterest |-> monthlyInterest, monthlyIVA |-> monthlyIVA,
              base1p5 |-> base1p5, optionA |-> optionA, optionB |-> optionB,
              baseMin |-> baseMin]

\* creditLimit = 0 stands for null
computeBanxicoMonthlyComponents(prevBalance, annualRate, creditLimit) ==
    IF prevBalance <= 0 \/ annualRate <= 0
    THEN [monthlyInterest |-> 0, monthlyIVA |-> 0, base1p5 |-> 0,
          optionA |-> 0, optionB |-> 0, baseMin |-> 0]
    ELSE LET monthlyInterest == (prevBalance * annualRate) \div 12000
             monthlyIVA == (monthlyInterest * 16) \div 100
             base1p5 == (prevBalance * 15) \div 1000
             optionA == base1p5 + monthlyInterest + monthlyIVA
             optionB == IF creditLimit > 0 THEN (creditLimit * 125) \div 10000 ELSE 0
             maxPossible == prevBalance + monthlyInterest + monthlyIVA
             baseMin == Min2(Max2(optionA, optionB), maxPossible)
         IN  [monthlyInterest |-> monthlyInterest, monthlyIVA |-> monthlyIVA,
              base1p5 |-> base1p5, optionA |-> optionA, optionB |-> optionB,
              baseMin |-> baseMin]

\* the binding minimum of an obligation created while the debt has `balance`
ObligationMin(debt, balance) ==
    LET ban == computeBanxicoMonthlyComponents(balance, debt.rate, debt.creditLimit)
        userMin == debt.monthlyMin
    IN  IF userMin > 0 THEN Max2(userMin, ban.baseMin) ELSE ban.baseMin

NewObligation(debt, balance, dueDate) ==
    [dueDate |-> dueDate,
     amountRemaining |-> ObligationMin(debt, balance),
     monthlyMin |-> ObligationMin(debt, balance),
     banxicoBaseMin |->
        computeBanxicoMonthlyComponents(balance, debt.rate, debt.creditLimit).baseMin]

(* ------------------------------ sorting -------------------------------- *)
\* Array.prototype.sort is stable.  Items are records with a primary key k1
\* and a secondary key k2, both ascending.
KeyLess(a, b) == a.k1 < b.k1 \/ (a.k1 = b.k1 /\ a.k2 < b.k2)

\* the items that sort before item i: a smaller key, or an equal key and an
\* earlier place in s
SortsBefore(s, i) ==
    { j \in 1..Len(s) : KeyLess(s[j], s[i]) \/ (~KeyLess(s[i], s[j]) /\ j < i) }

\* a sequence already in order is its own stable sort; otherwise every item
\* goes to the place after the items that sort before it
StableSort(s) ==
    IF \A j \in 1..Len(s) - 1 : ~KeyLess(s[j + 1], s[j]) THEN s
    ELSE LET place == Tail(<<0>> \o [i \in 1..Len(s) |->
                                       Cardinality(SortsBefore(s, i)) + 1])
         IN  [p \in 1..Len(s) |-> s[CHOOSE i \in 1..Len(s) : place[i] = p]]

(* ------------------------------- inputs -------------------------------- *)
MaxRuns == 2       \* runSimulation is invoked this many times in a row

Debt(id, balance, rate, creditLimit, monthlyMin, dueDay) ==
    [id |-> id, balance |-> balance, rate |-> rate, creditLimit |-> creditLimit,
     monthlyMin |-> monthlyMin, dueDay |-> dueDay]

DebtA == Debt(1, 30000, 480, 0, 4000, 12)
DebtB == Debt(2, 15000, 720, 0, 3000, 18)
DebtC == Debt(3, 9000, 600, 100000, 0, 31)
DebtD == Debt(4, 30000, 300, 0, 2500, 0)
DebtZ == Debt(5, 0, 360, 0, 1000, 5)
DebtS == Debt(6, 420, 0, 0, 0, 28)
\* a monthly minimum of 1000.00, first due after / before the second period
DebtE == Debt(7, 300000, 240, 0, 100000, 25)
DebtF == Debt(8, 300000, 240, 0, 100000, 5)
\* a small debt whose minimum takes two periods of a starved income to pay
DebtX == Debt(9, 1050, 0, 0, 1000, 20)
DebtY == Debt(10, 30000, 480, 0, 4000, 28)
\* defaultData.debts: Didi, Visa 40, Plata
Didi == Debt(11, 1133459, 865, 0, 167100, 24)
Visa40 == Debt(12, 1432618, 720, 0, 150000, 18)
Plata == Debt(13, 250000, 990, 0, 40000, 12)

Portfolios ==
    { <<DebtA, DebtB>>,
      <<DebtB, DebtC, DebtD>>,
      <<DebtD, DebtZ, DebtC, DebtS>>,
      <<DebtZ, DebtS>> }

StartDates == { 20250110, 20250131, 20271216 }

Strategies == { "snowball", "avalanche", "highMin", "reverseSnowball", "flat", "other" }

GrossIncomes == { 9000, 30000 }
StarvedIncomes == { 1500 }
LeanIncomes == { 1680 }
TightIncomes == { 8050, 61000 }

Goal(id, targetAmount, startingSaved, priority) ==
    [id |-> id, targetAmount |-> targetAmount, startingSaved |-> startingSaved,
     priority |-> priority]

Event(date, amount, type) == [date |-> date, amount |-> amount, type |-> type]

\* goals and one-off events of a profile
ExtrasWithGoals ==
    [goals |-> << Goal(1, 20000, 1000, 2), Goal(2, 8000, 0, 1) >>,
     events |-> << Event(20250215, 12000, "income"),
                   Event(20250131, 4000, "expense"),
                   Event(20280101, 60000, "expense") >>]

NoExtras == [goals |-> <<>>, events |-> <<>>]
Extras == { NoExtras, ExtrasWithGoals }

\* defaultData.goals and defaultData.events
SeedExtras ==
    [goals |-> << Goal(1, 6000000, 0, 1) >>,
     events |-> << Event(20251215, 925000, "income"),
                   Event(20251215, 152600, "expense"),
                   Event(20251215, 170000, "expense") >>]

\* every day of the month the seed events fall in, and two February days
SeedStartDates ==
    { MkDate(2025, 12, d) : d \in 1..31 } \cup { 20240229, 20260228 }

\* the profiles a run starts from: incomes that pay the debts off under every
\* strategy, date and extras, and an income below the interest that accrues
Profiles ==
    [debts : Portfolios, startDate : StartDates, strategy : Strategies,
     grossIncome : GrossIncomes, deductions : {<<300, 200>>},
     fixedExpenses : {<<400>>}, discretionary : {100}, extras : Extras]
    \cup
    [debts : Portfolios, startDate : {20250131}, strategy : {"snowball", "flat"},
     grossIncome : StarvedIncomes, deductions : {<<300, 200>>},
     fixedExpenses : {<<400>>}, discretionary : {100},
     extras : {ExtrasWithGoals}]
    \cup
    [debts : { <<DebtA, DebtB>>, <<DebtE>>, <<DebtF>> }, startDate : {20250110},
     strategy : {"snowball"}, grossIncome : TightIncomes,
     deductions : {<<300, 200>>}, fixedExpenses : {<<400>>},
     discretionary : {100}, extras : {NoExtras}]

\* debts that fall due on the same day (25, the default of DebtD), with
\* different and with equal outstanding minimums
DebtG == Debt(14, 40000, 360, 0, 2500, 25)
TiedProfiles ==
    [debts : { <<DebtD, DebtE>>, <<DebtD, DebtG, DebtB>>, <<DebtG, DebtE, DebtD>> },
     startDate : {20250110, 20250131}, strategy : {"snowball"},
     grossIncome : TightIncomes \cup {9000},
     deductions : {<<300, 200>>}, fixedExpenses : {<<400>>},
     discretionary : {100}, extras : {NoExtras}]

\* goals only: two of the same priority, one of them 0.50 short of its target
GoalsOnly ==
    [goals |-> << Goal(1, 20000, 1000, 2), Goal(2, 8000, 0, 1),
                  Goal(3, 1050, 1000, 1) >>,
     events |-> <<>>]

\* debts that are settled early, so that most periods fund the goals
GoalProfiles ==
    [debts : { <<DebtZ, DebtS>>, <<DebtA, DebtB>> }, startDate : {20250131},
     strategy : {"snowball"}, grossIncome : StarvedIncomes \cup GrossIncomes,
     deductions : {<<300, 200>>}, fixedExpenses : {<<400>>},
     discretionary : {100}, extras : {GoalsOnly}]

\* a debt within the 5 of the freedom tolerance that bears interest, with
\* goals to fund and a net income of 0 or of 3.00 per period
DebtR == Debt(15, 480, 720, 0, 0, 15)
ResidualIncomes == { 1000, 1300 }
ResidualProfiles ==
    [debts : { <<DebtR>> }, startDate : {20250110}, strategy : {"snowball"},
     grossIncome : ResidualIncomes, deductions : {<<300, 200>>},
     fixedExpenses : {<<400>>}, discretionary : {100}, extras : {GoalsOnly}]

\* incomes below the interest that accrues, with no goals and no events
StarvedProfiles ==
    [debts : { <<DebtA, DebtB>>, <<DebtD, DebtZ, DebtC, DebtS>>, <<DebtX, DebtY>> },
     startDate : {20250131}, strategy : {"snowball"},
     grossIncome : StarvedIncomes \cup LeanIncomes,
     deductions : {<<300, 200>>}, fixedExpenses : {<<400>>},
     discretionary : {100}, extras : {NoExtras}]

\* defaultData, started on each of SeedStartDates
SeedProfiles ==
    [debts : { <<Didi, Visa40, Plata>> }, startDate : SeedStartDates,
     strategy : {"snowball"}, grossIncome : {925000},
     deductions : {<<200000, 200000, 80000>>}, fixedExpenses : {<<67200>>},
     discretionary : {30000}, extras : {SeedExtras}]

VARIABLES
    state,              \* the profile: the input snapshot of a run
    heap,               \* the debt arrays, by reference: "state" is state.debts
    currentDebts,       \* reference to the run's working debt array
    currentGoals,
    currentDate,
    prevPeriodEnd,
    iteration,
    totalInterestPaid,
    debtRemaining,
    totalGoalRemaining,
    carryOver,
    debtFreedomIndex,   \* -1 stands for null
    minObligations,     \* debt id -> queue of obligations
    periodEnd,
    periodIncome,
    periodExpense,
    eventLog,           \* indexes into state.events of the events of the period
    initialCash,
    cashAvailable,
    rowDebtData,
    minPaidThisPeriod,
    minPayLog,          \* the minimum payments of the period, in the order made
    minDetails,
    strategyLog,
    simulationResults,
    cardHistories,
    freedomDate,
    currentTargetName,
    pc,
    runs,
    firstRun            \* what the first completed run reported

runVars == << currentDebts, currentGoals, currentDate, prevPeriodEnd, iteration,
              totalInterestPaid, debtRemaining, totalGoalRemaining, carryOver,
              debtFreedomIndex, minObligations >>
periodVars == << periodEnd, periodIncome, periodExpense, eventLog, initialCash,
                 cashAvailable, rowDebtData, minPaidThisPeriod, minPayLog,
                 minDetails, strategyLog >>
outVars == << simulationResults, cardHistories, freedomDate, currentTargetName >>
vars == << state, heap, runVars, periodVars, outVars, pc, runs, firstRun >>

Debts == heap[currentDebts]
DebtIds(debts) == { debts[i].id : i \in 1..Len(debts) }
IdxOf(debts, id) == CHOOSE i \in 1..Len(debts) : debts[i].id = id

NoRec == [present |-> FALSE, startingBalance |-> 0, interest |-> 0, iva |-> 0,
          minPaid |-> 0, extraPaid |-> 0, endingBalance |-> 0]

\* #freedomDate before any run has reported
NoReport == [label |-> "", date |-> 0, quincenas |-> 0]

InitFrom(profiles) ==
    /\ \E p \in profiles :
          /\ state = [startDate |-> p.startDate, grossIncome |-> p.grossIncome,
                      deductions |-> p.deductions,
                      fixedExpenses |-> p.fixedExpenses,
                      discretionary |-> p.discretionary, strategy |-> p.strategy,
                      debts |-> "state", goals |-> p.extras.goals,
                      events |-> p.extras.events]
          /\ heap = [r \in {"state", "work"} |->
                       IF r = "state" THEN p.debts ELSE <<>>]
    /\ currentDebts = "work"
    /\ currentGoals = <<>>
    /\ currentDate = 0
    /\ prevPeriodEnd = 0
    /\ iteration = 0
    /\ totalInterestPaid = 0
    /\ debtRemaining = 0
    /\ totalGoalRemaining = 0
    /\ carryOver = 0
    /\ debtFreedomIndex = -1
    /\ minObligations = <<>>
    /\ periodEnd = 0
    /\ periodIncome = 0
    /\ periodExpense = 0
    /\ eventLog = <<>>
    /\ initialCash = 0
    /\ cashAvailable = 0
    /\ rowDebtData = <<>>
    /\ minPaidThisPeriod = <<>>
    /\ minPayLog = <<>>
    /\ minDetails = <<>>
    /\ strategyLog = <<>>
    /\ simulationResults = <<>>
    /\ cardHistories = <<>>
    /\ freedomDate = NoReport
    /\ currentTargetName = 0
    /\ pc = "idle"
    /\ runs = 0
    /\ firstRun = [results |-> <<>>, histories |-> <<>>, freedomDate |-> NoReport]

Init == InitFrom(Profiles)

(* ------------------------- runSimulation: set-up ----------------------- *)
deepCloneAlias(src, fresh) == src

\* deepClone(obj) is a new object: `fresh` is the reference it gets
deepClone(src, fresh) == fresh

GoalShortfall(goals) ==
    SumSeq([i \in 1..Len(goals) |-> Max2(0, goals[i].targetAmount - goals[i].saved)])

TotalBalance(debts) == SumSeq([i \in 1..Len(debts) |-> debts[i].balance])

\* the seeding of the obligation queues
SeedObligations(debts, simStartDate) ==
    [id \in DebtIds(debts) |->
        LET debt == debts[IdxOf(debts, id)]
        IN  IF debt.balance <= EPS THEN <<>>
            ELSE << NewObligation(debt, debt.balance,
                                  getFirstDueDate(simStartDate, debt)) >>]

StartRun ==
    /\ pc = "idle"
    /\ runs < MaxRuns
    /\ LET ref == deepClone(state.debts, "work")
           debts == heap[state.debts]
           goals == [i \in 1..Len(state.goals) |->
                        [id |-> state.goals[i].id,
                         targetAmount |-> state.goals[i].targetAmount,
                         startingSaved |-> state.goals[i].startingSaved,
                         priority |-> state.goals[i].priority,
                         saved |-> state.goals[i].startingSaved]]
       IN  /\ currentDebts' = ref
           /\ heap' = [heap EXCEPT ![ref] = debts]
           /\ currentGoals' = goals
           /\ currentDate' = state.startDate
           /\ debtRemaining' = TotalBalance(debts)
           /\ totalGoalRemaining' = GoalShortfall(goals)
           /\ cardHistories' = [id \in DebtIds(debts) |-> <<>>]
           /\ minObligations' = SeedObligations(debts, state.startDate)
    /\ simulationResults' = <<>>
    /\ prevPeriodEnd' = 0
    /\ iteration' = 0
    /\ totalInterestPaid' = 0
    /\ carryOver' = 0
    /\ debtFreedomIndex' = -1
    /\ periodEnd' = 0
    /\ periodIncome' = 0
    /\ periodExpense' = 0
    /\ eventLog' = <<>>
    /\ initialCash' = 0
    /\ cashAvailable' = 0
    /\ rowDebtData' = <<>>
    /\ minPaidThisPeriod' = <<>>
    /\ minPayLog' = <<>>
    /\ minDetails' = <<>>
    /\ strategyLog' = <<>>
    /\ pc' = "loop"
    /\ UNCHANGED << state, freedomDate, currentTargetName, runs, firstRun >>

(* ------------------- period: cash and interest accrual ----------------- *)
\* the window also takes the previous period's end date
EventIncludedClosedWindow(ev, prevEnd, simStartDate, pEnd) ==
    IF prevEnd # 0
    THEN ev.date >= prevEnd /\ ev.date <= pEnd
    ELSE ev.date >= simStartDate /\ ev.date <= pEnd

EventIncluded(ev, prevEnd, simStartDate, pEnd) ==
    IF prevEnd # 0
    THEN ev.date > prevEnd /\ ev.date <= pEnd
    ELSE ev.date >= simStartDate /\ ev.date <= pEnd

EventTotal(events, type, prevEnd, simStartDate, pEnd) ==
    SumSeq([i \in 1..Len(events) |->
              IF events[i].type = type
                 /\ EventIncluded(events[i], prevEnd, simStartDate, pEnd)
              THEN events[i].amount ELSE 0])

EventLog(events, prevEnd, simStartDate, pEnd) ==
    SelectSeq([i \in 1..Len(events) |-> i],
              LAMBDA i : EventIncluded(events[i], prevEnd, simStartDate, pEnd))

\* semi-monthly interest (annual rate / 24) and the 16% surcharge on it
PeriodInterest(balance, rate) == (balance * rate) \div 24000
PeriodIva(intereses) == (intereses * 16) \div 100

\* the interest is added to the balance without its surcharge
AccrueDebtNoSurcharge(debt) ==
    IF debt.balance <= EPS
    THEN [debt EXCEPT !.balance = 0]
    ELSE [debt EXCEPT !.balance =
            debt.balance + PeriodInterest(debt.balance, debt.rate)]

\* the interest is reported but not added to the balance
AccrueDebtNotCharged(debt) ==
    IF debt.balance <= EPS THEN [debt EXCEPT !.balance = 0] ELSE debt

AccrueDebt(debt) ==
    IF debt.balance <= EPS
    THEN [debt EXCEPT !.balance = 0]
    ELSE [debt EXCEPT !.balance =
            debt.balance + PeriodInterest(debt.balance, debt.rate)
                         + PeriodIva(PeriodInterest(debt.balance, debt.rate))]

AccrueRec(debt) ==
    IF debt.balance <= EPS THEN NoRec
    ELSE [present |-> TRUE,
          startingBalance |-> debt.balance,
          interest |-> PeriodInterest(debt.balance, debt.rate),
          iva |-> PeriodIva(PeriodInterest(debt.balance, debt.rate)),
          minPaid |-> 0, extraPaid |-> 0,
          endingBalance |-> AccrueDebt(debt).balance]

LoopConditionDebtOnly == debtRemaining > FREE /\ iteration < MAX_ITERS

LoopCondition ==
    (debtRemaining > FREE \/ totalGoalRemaining > FREE) /\ iteration < MAX_ITERS

BeginPeriod ==
    /\ pc = "loop"
    /\ LoopCondition
    /\ iteration' = iteration + 1
    /\ periodEnd' = currentDate
    /\ LET baseNet == state.grossIncome - SumSeq(state.deductions)
           baseFixed == SumSeq(state.fixedExpenses)
           inc == baseNet + EventTotal(state.events, "income", prevPeriodEnd,
                                       state.startDate, currentDate)
           exp == baseFixed + state.discretionary
                    + EventTotal(state.events, "expense", prevPeriodEnd,
                                 state.startDate, currentDate)
           debts == Debts
       IN  /\ periodIncome' = inc
           /\ periodExpense' = exp
           /\ eventLog' = EventLog(state.events, prevPeriodEnd, state.startDate,
                                   currentDate)
           /\ cashAvailable' = inc - exp + carryOver
           /\ initialCash' = inc - exp + carryOver
           /\ heap' = [heap EXCEPT ![currentDebts] =
                         [i \in 1..Len(debts) |-> AccrueDebt(debts[i])]]
           /\ totalInterestPaid' = totalInterestPaid
                + SumSeq([i \in 1..Len(debts) |->
                            AccrueDebt(debts[i]).balance
                              - (IF debts[i].balance <= EPS THEN 0
                                 ELSE debts[i].balance)])
           /\ rowDebtData' = [id \in DebtIds(debts) |->
                                AccrueRec(debts[IdxOf(debts, id)])]
           /\ minPaidThisPeriod' = [id \in DebtIds(debts) |-> 0]
    /\ minPayLog' = <<>>
    /\ minDetails' = <<>>
    /\ strategyLog' = <<>>
    /\ pc' = "rollover"
    /\ UNCHANGED << state, currentDebts, currentGoals, currentDate, prevPeriodEnd,
                    debtRemaining, totalGoalRemaining, carryOver, debtFreedomIndex,
                    minObligations, outVars, runs, firstRun >>

(* ------------------------- obligation rollover ------------------------- *)
\* the next due date keeps the day of the previous one
NextDueDateSameDay(lastDue, dueDay) ==
    LET y0 == getFullYear(lastDue)
        m0 == getMonth(lastDue) + 1
        y == IF m0 > 11 THEN y0 + 1 ELSE y0
        m == IF m0 > 11 THEN 0 ELSE m0
    IN  makeDueDate(y, m, getDate(lastDue))

NextDueDate(lastDue, dueDay) ==
    LET y0 == getFullYear(lastDue)
        m0 == getMonth(lastDue) + 1
        y == IF m0 > 11 THEN y0 + 1 ELSE y0
        m == IF m0 > 11 THEN 0 ELSE m0
    IN  makeDueDate(y, m, dueDay)

UnshiftObligation(obs, newOb) == <<newOb>> \o obs
\* obs.push(newOb)
PushObligation(obs, newOb) == Append(obs, newOb)

\* the while loop of the rollover; lastOb is the obligation created last
RECURSIVE RollQueue(_, _, _, _)
RollQueue(obs, lastOb, debt, pEnd) ==
    IF pEnd > lastOb.dueDate /\ Len(obs) < MAX_OBS /\ debt.balance > EPS
    THEN LET newOb == NewObligation(debt, debt.balance,
                         NextDueDate(lastOb.dueDate, getDueDayOrDefault(debt)))
         IN  RollQueue(PushObligation(obs, newOb), newOb, debt, pEnd)
    ELSE obs

RolloverQueues(obls, debts, pEnd) ==
    [id \in DOMAIN obls |->
        IF id \notin DebtIds(debts) THEN obls[id]
        ELSE LET debt == debts[IdxOf(debts, id)]
             IN  IF debt.balance <= EPS \/ Len(obls[id]) = 0 THEN obls[id]
                 ELSE RollQueue(obls[id], obls[id][Len(obls[id])], debt, pEnd)]

Rollover ==
    /\ pc = "rollover"
    /\ minObligations' = RolloverQueues(minObligations, Debts, periodEnd)
    /\ pc' = "settle"
    /\ UNCHANGED << state, heap, currentDebts, currentGoals, currentDate,
                    prevPeriodEnd, iteration, totalInterestPaid, debtRemaining,
                    totalGoalRemaining, carryOver, debtFreedomIndex, periodVars,
                    outVars, runs, firstRun >>

(* ---------------------- minimum-payment settlement --------------------- *)
ActiveObs(obs) == { j \in 1..Len(obs) : obs[j].amountRemaining > EPS }

EarliestDue(obs, js) ==
    CHOOSE d \in { obs[j].dueDate : j \in js } :
        \A j \in js : d <= obs[j].dueDate

\* sum of f over the index set js
RECURSIVE SumOver(_, _)
SumOver(f, js) ==
    IF js = {} THEN 0
    ELSE LET j == CHOOSE x \in js : TRUE
             low == { x \in js : x < j + Cardinality(js) \div 2 }
         IN  IF low = {} \/ low = js THEN f[j] + SumOver(f, js \ {j})
             ELSE SumOver(f, low) + SumOver(f, js \ low)

FilterSeq(s, keep) ==
    LET RECURSIVE F(_)
        F(n) == IF n = 0 THEN <<>>
                ELSE IF keep[n] THEN Append(F(n - 1), s[n]) ELSE F(n - 1)
    IN  F(Len(s))

\* the debts with pending obligations are settled in the order of the profile
DebtsForMinUnsorted(debts, obls) ==
    LET entry(i) ==
            LET obs == obls[debts[i].id]
                act == ActiveObs(obs)
            IN  IF act = {} \/ debts[i].balance <= EPS
                THEN [keep |-> FALSE, id |-> debts[i].id, k1 |-> 0, k2 |-> 0]
                ELSE [keep |-> TRUE, id |-> debts[i].id,
                      k1 |-> EarliestDue(obs, act),
                      k2 |-> 0 - SumOver([j \in act |-> obs[j].amountRemaining], act)]
        all == [i \in 1..Len(debts) |-> entry(i)]
    IN  FilterSeq(all, [i \in 1..Len(debts) |-> all[i].keep])

\* ties on the due date go to the smaller outstanding minimum
DebtsForMinSmallerFirst(debts, obls) ==
    LET entry(i) ==
            LET obs == obls[debts[i].id]
                act == ActiveObs(obs)
            IN  IF act = {} \/ debts[i].balance <= EPS
                THEN [keep |-> FALSE, id |-> debts[i].id, k1 |-> 0, k2 |-> 0]
                ELSE [keep |-> TRUE, id |-> debts[i].id,
                      k1 |-> EarliestDue(obs, act),
                      k2 |-> SumOver([j \in act |-> obs[j].amountRemaining], act)]
        all == [i \in 1..Len(debts) |-> entry(i)]
    IN  StableSort(FilterSeq(all, [i \in 1..Len(debts) |-> all[i].keep]))

\* the debts that have a pending obligation and a balance, most urgent first:
\* earliest unresolved due date ascending, then larger outstanding minimum
DebtsForMin(debts, obls) ==
    LET entry(i) ==
            LET obs == obls[debts[i].id]
                act == ActiveObs(obs)
            IN  IF act = {} \/ debts[i].balance <= EPS
                THEN [keep |-> FALSE, id |-> debts[i].id, k1 |-> 0, k2 |-> 0]
                ELSE [keep |-> TRUE, id |-> debts[i].id,
                      k1 |-> EarliestDue(obs, act),
                      k2 |-> 0 - SumOver([j \in act |-> obs[j].amountRemaining], act)]
        all == [i \in 1..Len(debts) |-> entry(i)]
    IN  StableSort(FilterSeq(all, [i \in 1..Len(debts) |-> all[i].keep]))

\* the indices of a queue, ordered by due date
SortedObs(obs) ==
    LET items == StableSort([j \in 1..Len(obs) |->
                               [k1 |-> obs[j].dueDate, k2 |-> 0, idx |-> j]])
    IN  [n \in 1..Len(items) |-> items[n].idx]

Min3(a, b, c) == Min2(a, Min2(b, c))

MinPayNoBalanceCap(cash, amountRemaining, balance) == Min2(cash, amountRemaining)
MinPayNoObligationCap(cash, amountRemaining, balance) == Min2(cash, balance)
\* the amount paid against one obligation
MinPay(cash, amountRemaining, balance) == Min3(cash, amountRemaining, balance)

\* the due dates of the obligations still pending on debts that carry a balance
PendingDues(debts, obls) ==
    UNION { { obls[debts[k].id][n].dueDate : n \in ActiveObs(obls[debts[k].id]) } :
            k \in { k2 \in 1..Len(debts) : debts[k2].balance > EPS } }

\* one pass of the body of the loop over a debt's sorted obligations;
\* st = [cash, debts, obls, rdd, paid, log]
PayObligation(st, id, j) ==
    LET i == IdxOf(st.debts, id)
        debt == st.debts[i]
        ob == st.obls[id][j]
        pay == MinPay(st.cash, ob.amountRemaining, debt.balance)
        old == st.rdd[id]
        rec == IF old.present THEN old
               ELSE [present |-> TRUE, startingBalance |-> debt.balance,
                     interest |-> 0, iva |-> 0, minPaid |-> 0, extraPaid |-> 0,
                     endingBalance |-> debt.balance - pay]
    IN  IF st.cash <= 0 THEN st
        ELSE IF ob.amountRemaining <= EPS THEN st
        ELSE IF pay <= 0 THEN st
        ELSE [cash |-> st.cash - pay,
              debts |-> [st.debts EXCEPT ![i].balance = debt.balance - pay],
              obls |-> [st.obls EXCEPT ![id][j].amountRemaining =
                                          ob.amountRemaining - pay],
              rdd |-> [st.rdd EXCEPT ![id] =
                         [rec EXCEPT !.minPaid = rec.minPaid + pay,
                                     !.endingBalance = debt.balance - pay]],
              paid |-> [st.paid EXCEPT ![id] = st.paid[id] + pay],
              log |-> Append(st.log,
                        [id |-> id, ob |-> j, dueDate |-> ob.dueDate, pay |-> pay,
                         balance |-> debt.balance - pay,
                         remaining |-> ob.amountRemaining - pay,
                         pendingBefore |-> PendingDues(st.debts, st.obls)])]

RECURSIVE SettleDebt(_, _, _)
SettleDebt(st, id, order) ==
    IF Len(order) = 0 \/ st.cash <= 0 THEN st
    ELSE SettleDebt(PayObligation(st, id, order[1]), id, Tail(order))

\* only the most urgent debt is settled
SettleAllMostUrgentOnly(st, forMin) ==
    IF Len(forMin) = 0 THEN st
    ELSE SettleDebt(st, forMin[1].id, SortedObs(st.obls[forMin[1].id]))

RECURSIVE SettleAll(_, _)
SettleAll(st, forMin) ==
    IF Len(forMin) = 0 THEN st
    ELSE SettleAll(SettleDebt(st, forMin[1].id, SortedObs(st.obls[forMin[1].id])),
                   Tail(forMin))

\* the required amount is taken from what is still owed
MinDetailOfStillOwed(debt, obs, paid, pEnd) ==
    LET dueNow == { j \in 1..Len(obs) : obs[j].dueDate <= pEnd }
        act == ActiveObs(obs)
    IN  [id |-> debt.id,
         paid |-> paid,
         required |-> SumOver([j \in dueNow |-> obs[j].amountRemaining], dueNow),
         requiredBefore |-> SumOver([j \in dueNow |-> obs[j].amountRemaining], dueNow),
         remainingAfter |-> SumOver([j \in dueNow |-> obs[j].amountRemaining], dueNow),
         firstDueDate |-> EarliestDue(obs, 1..Len(obs)),
         nextDueDate |-> IF act = {} THEN 0 ELSE EarliestDue(obs, act),
         monthlyMin |-> obs[1].monthlyMin,
         banxicoBaseMin |-> obs[1].banxicoBaseMin]

\* the per-debt minimum breakdown reported for the period
MinDetailOf(debt, obs, paid, pEnd) ==
    LET dueNow == { j \in 1..Len(obs) : obs[j].dueDate <= pEnd }
        act == ActiveObs(obs)
    IN  [id |-> debt.id,
         paid |-> paid,
         required |-> SumOver([j \in dueNow |-> obs[j].monthlyMin], dueNow),
         requiredBefore |-> SumOver([j \in dueNow |-> obs[j].monthlyMin], dueNow),
         remainingAfter |-> SumOver([j \in dueNow |-> obs[j].amountRemaining], dueNow),
         firstDueDate |-> EarliestDue(obs, 1..Len(obs)),
         nextDueDate |-> IF act = {} THEN 0 ELSE EarliestDue(obs, act),
         monthlyMin |-> obs[1].monthlyMin,
         banxicoBaseMin |-> obs[1].banxicoBaseMin]

MinDetails(debts, obls, paid, pEnd) ==
    LET all == [i \in 1..Len(debts) |->
                  IF Len(obls[debts[i].id]) = 0 THEN NoRec
                  ELSE MinDetailOf(debts[i], obls[debts[i].id],
                                   paid[debts[i].id], pEnd)]
    IN  FilterSeq(all, [i \in 1..Len(debts) |-> Len(obls[debts[i].id]) > 0])

SettleMinimums ==
    /\ pc = "settle"
    /\ LET st0 == [cash |-> cashAvailable, debts |-> Debts, obls |-> minObligations,
                   rdd |-> rowDebtData, paid |-> minPaidThisPeriod, log |-> <<>>]
           st == SettleAll(st0, DebtsForMin(Debts, minObligations))
       IN  /\ cashAvailable' = st.cash
           /\ heap' = [heap EXCEPT ![currentDebts] = st.debts]
           /\ minObligations' = st.obls
           /\ rowDebtData' = st.rdd
           /\ minPaidThisPeriod' = st.paid
           /\ minPayLog' = st.log
           /\ minDetails' = MinDetails(st.debts, st.obls, st.paid, periodEnd)
    /\ pc' = "strategy"
    /\ UNCHANGED << state, currentDebts, currentGoals, currentDate, prevPeriodEnd,
                    iteration, totalInterestPaid, debtRemaining, totalGoalRemaining,
                    carryOver, debtFreedomIndex, periodEnd, periodIncome,
                    periodExpense, eventLog, initialCash, strategyLog, outVars,
                    runs, firstRun >>

(* -------------------------- strategy allocation ------------------------ *)
ActiveIdx(debts) == FilterSeq([i \in 1..Len(debts) |-> i],
                              [i \in 1..Len(debts) |-> debts[i].balance > EPS])

StrategyKeySwapped(strategy, debt) ==
    CASE strategy = "snowball" -> 0 - debt.balance
      [] strategy = "avalanche" -> debt.rate
      [] strategy = "highMin" -> 0 - debt.monthlyMin
      [] strategy = "reverseSnowball" -> debt.balance
      [] OTHER -> 0 - debt.rate

StrategyKey(strategy, debt) ==
    CASE strategy = "snowball" -> debt.balance
      [] strategy = "avalanche" -> 0 - debt.rate
      [] strategy = "highMin" -> 0 - debt.monthlyMin
      [] strategy = "reverseSnowball" -> 0 - debt.balance
      [] OTHER -> 0 - debt.rate

\* the active debts (as indices into debts) in the order of the strategy
OrderedDebts(strategy, debts) ==
    LET act == ActiveIdx(debts)
        items == StableSort([n \in 1..Len(act) |->
                    [k1 |-> StrategyKey(strategy, debts[act[n]]), k2 |-> 0,
                     idx |-> act[n]]])
    IN  [n \in 1..Len(items) |-> items[n].idx]

\* the extra payment is not taken out of the cash
ApplyExtraNotDeducted(st, i, pay) ==
    LET debt == st.debts[i]
        old == st.rdd[debt.id]
        rec == IF old.present THEN old
               ELSE [present |-> TRUE, startingBalance |-> debt.balance,
                     interest |-> 0, iva |-> 0, minPaid |-> 0, extraPaid |-> 0,
                     endingBalance |-> debt.balance - pay]
    IN  [extra |-> st.extra,
         debts |-> [st.debts EXCEPT ![i].balance = debt.balance - pay],
         rdd |-> [st.rdd EXCEPT ![debt.id] =
                    [rec EXCEPT !.extraPaid = rec.extraPaid + pay,
                                !.endingBalance = debt.balance - pay]],
         log |-> Append(st.log, [id |-> debt.id, amount |-> pay])]

\* st = [extra, debts, rdd, log]: an extra payment of `pay` to debts[i]
ApplyExtra(st, i, pay) ==
    LET debt == st.debts[i]
        old == st.rdd[debt.id]
        rec == IF old.present THEN old
               ELSE [present |-> TRUE, startingBalance |-> debt.balance,
                     interest |-> 0, iva |-> 0, minPaid |-> 0, extraPaid |-> 0,
                     endingBalance |-> debt.balance - pay]
    IN  [extra |-> st.extra - pay,
         debts |-> [st.debts EXCEPT ![i].balance = debt.balance - pay],
         rdd |-> [st.rdd EXCEPT ![debt.id] =
                    [rec EXCEPT !.extraPaid = rec.extraPaid + pay,
                                !.endingBalance = debt.balance - pay]],
         log |-> Append(st.log, [id |-> debt.id, amount |-> pay])]

\* the share of the flat strategy for one debt
FlatPay(extra, balance, totalActiveBalance) ==
    Min2((extra * balance) \div totalActiveBalance, balance)

RECURSIVE FlatLoop(_, _, _)
FlatLoop(st, order, totalActiveBalance) ==
    IF Len(order) = 0 THEN st
    ELSE LET i == order[1]
             pay == FlatPay(st.extra, st.debts[i].balance, totalActiveBalance)
         IN  FlatLoop(IF st.extra <= SNAP \/ pay <= 0 THEN st
                      ELSE ApplyExtra(st, i, pay),
                      Tail(order), totalActiveBalance)

\* the loop goes on while any cash is left
RECURSIVE SequentialLoopToLastCent(_, _)
SequentialLoopToLastCent(st, order) ==
    IF Len(order) = 0 \/ st.extra <= 0 THEN st
    ELSE LET i == order[1]
             pay == Min2(st.extra, st.debts[i].balance)
         IN  SequentialLoopToLastCent(IF pay <= 0 THEN st
                                      ELSE ApplyExtra(st, i, pay),
                                      Tail(order))

\* only the first debt of the order is paid
SequentialLoopFirstOnly(st, order) ==
    IF Len(order) = 0 \/ st.extra <= SNAP THEN st
    ELSE LET i == order[1]
             pay == Min2(st.extra, st.debts[i].balance)
         IN  IF pay <= 0 THEN st ELSE ApplyExtra(st, i, pay)

RECURSIVE SequentialLoop(_, _)
SequentialLoop(st, order) ==
    IF Len(order) = 0 \/ st.extra <= SNAP THEN st
    ELSE LET i == order[1]
             pay == Min2(st.extra, st.debts[i].balance)
         IN  SequentialLoop(IF pay <= 0 THEN st ELSE ApplyExtra(st, i, pay),
                            Tail(order))

Allocate(strategy, cash, debts, rdd) ==
    LET st0 == [extra |-> cash, debts |-> debts, rdd |-> rdd, log |-> <<>>]
        act == ActiveIdx(debts)
        totalActiveBalance == SumSeq([n \in 1..Len(act) |-> debts[act[n]].balance])
    IN  IF cash <= SNAP THEN st0
        ELSE IF strategy = "flat" /\ totalActiveBalance > 0
        THEN FlatLoop(st0, act, totalActiveBalance)
        ELSE SequentialLoop(st0, OrderedDebts(strategy, debts))

StrategyAllocation ==
    /\ pc = "strategy"
    /\ LET st == Allocate(state.strategy, cashAvailable, Debts, rowDebtData)
       IN  /\ cashAvailable' = st.extra
           /\ heap' = [heap EXCEPT ![currentDebts] = st.debts]
           /\ rowDebtData' = st.rdd
           /\ strategyLog' = st.log
    /\ pc' = "close"
    /\ UNCHANGED << state, runVars, periodEnd, periodIncome, periodExpense,
                    eventLog, initialCash, minPaidThisPeriod, minPayLog, minDetails,
                    outVars, runs, firstRun >>

(* ------------- end of period: snap, freedom, goals, records ------------ *)
\* only the balances within the 0.5 epsilon are cleared
SnapDebtsWithinEps(debts) ==
    [i \in 1..Len(debts) |->
        IF debts[i].balance <= EPS THEN [debts[i] EXCEPT !.balance = 0] ELSE debts[i]]

SnapDebts(debts) ==
    [i \in 1..Len(debts) |->
        IF debts[i].balance < SNAP THEN [debts[i] EXCEPT !.balance = 0] ELSE debts[i]]

CanSaveWithoutGate(remaining, goals) == Len(goals) > 0

\* the goal-funding gate
CanSaveNow(remaining, goals) == remaining <= FREE /\ Len(goals) > 0

GoalPriorityKey(goal) == IF goal.priority = 0 THEN NO_PRIORITY ELSE goal.priority

\* the goals still short of their target, in the order of declaration
OrderedGoalsAsDeclared(goals) ==
    FilterSeq([i \in 1..Len(goals) |-> i],
              [i \in 1..Len(goals) |->
                  goals[i].targetAmount - goals[i].saved > SNAP])

\* the goals still short of their target (as indices), by priority
OrderedGoals(goals) ==
    LET open == FilterSeq([i \in 1..Len(goals) |-> i],
                   [i \in 1..Len(goals) |->
                       goals[i].targetAmount - goals[i].saved > SNAP])
        items == StableSort([n \in 1..Len(open) |->
                    [k1 |-> GoalPriorityKey(goals[open[n]]), k2 |-> 0,
                     idx |-> open[n]]])
    IN  [n \in 1..Len(items) |-> items[n].idx]

\* st = [extra, goals, log]
RECURSIVE GoalLoop(_, _)
GoalLoop(st, order) ==
    IF Len(order) = 0 \/ st.extra <= SNAP THEN st
    ELSE LET i == order[1]
             need == st.goals[i].targetAmount - st.goals[i].saved
             pay == Min2(need, st.extra)
         IN  GoalLoop(IF need <= 0 THEN st
                      ELSE [extra |-> st.extra - pay,
                            goals |-> [st.goals EXCEPT ![i].saved =
                                                          st.goals[i].saved + pay],
                            log |-> Append(st.log,
                                      [id |-> st.goals[i].id, amount |-> pay])],
                      Tail(order))

FundGoals(cash, remaining, goals) ==
    LET st0 == [extra |-> cash, goals |-> goals, log |-> <<>>]
    IN  IF cash > SNAP /\ CanSaveNow(remaining, goals)
        THEN GoalLoop(st0, OrderedGoals(goals))
        ELSE st0

\* the history entry of one debt for the period
HistoryEntry(debt, rec, historyArr, pEnd) ==
    IF ~rec.present
    THEN [date |-> pEnd,
          startingBalance |-> IF Len(historyArr) > 0
                              THEN historyArr[Len(historyArr)].endingBalance
                              ELSE debt.balance,
          interest |-> 0, iva |-> 0, minPaid |-> 0, extraPaid |-> 0,
          endingBalance |-> debt.balance]
    ELSE [date |-> pEnd,
          startingBalance |-> rec.startingBalance,
          interest |-> rec.interest, iva |-> rec.iva,
          minPaid |-> rec.minPaid, extraPaid |-> rec.extraPaid,
          endingBalance |-> rec.endingBalance]

\* the 15th itself counts as the second half of the month
AdvanceClockFromSecondHalf(date) ==
    IF getDate(date) < 15
    THEN NewDate(getFullYear(date), getMonth(date) + 1, 0)
    ELSE NewDate(getFullYear(date), getMonth(date) + 1, 15)

\* the next semi-monthly clock value
AdvanceClock(date) ==
    IF getDate(date) <= 15
    THEN NewDate(getFullYear(date), getMonth(date) + 1, 0)
    ELSE NewDate(getFullYear(date), getMonth(date) + 1, 15)

\* the index follows the latest period that ended with the debts settled
FreedomIndexLatest(freedomIndex, remaining, resultIndex) ==
    IF remaining <= FREE THEN resultIndex ELSE freedomIndex

\* the first period that ends with the debts settled is recorded, once
FreedomIndex(freedomIndex, remaining, resultIndex) ==
    IF freedomIndex = -1 /\ remaining <= FREE THEN resultIndex ELSE freedomIndex

\* the remainder is carried over with its sign
PocketSigned(cash) == cash

\* what is left of the cash is the pocket of the next period
Pocket(cash) == Max2(0, cash)

ClosePeriod ==
    /\ pc = "close"
    /\ LET debts == SnapDebts(Debts)
           remaining == TotalBalance(debts)
           g == FundGoals(cashAvailable, remaining, currentGoals)
           pocket == Pocket(g.extra)
       IN  /\ heap' = [heap EXCEPT ![currentDebts] = debts]
           /\ debtRemaining' = remaining
           /\ debtFreedomIndex' =
                FreedomIndex(debtFreedomIndex, remaining, Len(simulationResults))
           /\ currentGoals' = g.goals
           /\ cashAvailable' = g.extra
           /\ totalGoalRemaining' = GoalShortfall(g.goals)
           /\ carryOver' = pocket
           /\ simulationResults' = Append(simulationResults,
                [id |-> iteration, date |-> currentDate,
                 income |-> periodIncome, expenses |-> periodExpense,
                 initialCash |-> initialCash, minDetails |-> minDetails,
                 strategyDetails |-> strategyLog, savingDetails |-> g.log,
                 endBalance |-> remaining, pocket |-> pocket,
                 notes |-> eventLog])
           /\ cardHistories' =
                [id \in DOMAIN cardHistories |->
                    IF id \notin DebtIds(debts) THEN cardHistories[id]
                    ELSE Append(cardHistories[id],
                           HistoryEntry(debts[IdxOf(debts, id)], rowDebtData[id],
                                        cardHistories[id], periodEnd))]
    /\ prevPeriodEnd' = periodEnd
    /\ currentDate' = AdvanceClock(currentDate)
    /\ pc' = "loop"
    /\ UNCHANGED << state, currentDebts, iteration, totalInterestPaid,
                    minObligations, periodEnd, periodIncome, periodExpense,
                    eventLog, initialCash, rowDebtData, minPaidThisPeriod, minPayLog,
                    minDetails, strategyLog, freedomDate, currentTargetName,
                    runs, firstRun >>

(* ------------------------ after the loop: report ----------------------- *)
TargetKey(strategy, debt) ==
    CASE strategy = "snowball" -> debt.balance
      [] strategy = "avalanche" -> 0 - debt.rate
      [] strategy = "highMin" -> 0 - debt.monthlyMin
      [] strategy = "reverseSnowball" -> 0 - debt.balance
      [] OTHER -> 0 - debt.rate

\* tempD.sort(...): the array sorted in place by the strategy's key
SortForTarget(strategy, debts) ==
    LET items == StableSort([i \in 1..Len(debts) |->
                    [k1 |-> TargetKey(strategy, debts[i]), k2 |-> 0, idx |-> i]])
    IN  [n \in 1..Len(items) |-> debts[items[n].idx]]

\* the id of the first debt with a balance, 0 for "Libre"
CurrentTarget(sorted) ==
    IF \E n \in 1..Len(sorted) : sorted[n].balance > 0
    THEN sorted[CHOOSE n \in 1..Len(sorted) :
                  /\ sorted[n].balance > 0
                  /\ \A k \in 1..(n - 1) : sorted[k].balance <= 0].id
    ELSE 0

FreedomReportFalsyIndex(freedomIndex, results) ==
    IF freedomIndex > 0 /\ Len(results) > 0
    THEN [label |-> "date", date |-> results[freedomIndex + 1].date,
          quincenas |-> freedomIndex + 1]
    ELSE IF Len(results) = 0
    THEN [label |-> "Sin datos", date |-> 0, quincenas |-> 0]
    ELSE [label |-> "Nunca", date |-> 0, quincenas |-> 0]

\* a run that never got free reports its last period
FreedomReportLastPeriod(freedomIndex, results) ==
    IF Len(results) = 0
    THEN [label |-> "Sin datos", date |-> 0, quincenas |-> 0]
    ELSE IF freedomIndex # -1
    THEN [label |-> "date", date |-> results[freedomIndex + 1].date,
          quincenas |-> freedomIndex + 1]
    ELSE [label |-> "date", date |-> results[Len(results)].date,
          quincenas |-> Len(results)]

FreedomReport(freedomIndex, results) ==
    IF freedomIndex # -1 /\ Len(results) > 0
    THEN [label |-> "date",
          date |-> IF freedomIndex + 1 <= Len(results)
                   THEN results[freedomIndex + 1].date
                   ELSE results[Len(results)].date,
          quincenas |-> freedomIndex + 1]
    ELSE IF Len(results) = 0
    THEN [label |-> "Sin datos", date |-> 0, quincenas |-> 0]
    ELSE [label |-> "Nunca", date |-> 0, quincenas |-> 0]

Finish ==
    /\ pc = "loop"
    /\ ~LoopCondition
    /\ LET tempD == deepClone(state.debts, "temp")
           sorted == SortForTarget(state.strategy, heap[state.debts])
       IN  /\ currentTargetName' = CurrentTarget(sorted)
           /\ heap' = IF tempD \in DOMAIN heap
                      THEN [heap EXCEPT ![tempD] = sorted] ELSE heap
    /\ freedomDate' = FreedomReport(debtFreedomIndex, simulationResults)
    /\ runs' = runs + 1
    /\ firstRun' = IF runs = 0
                   THEN [results |-> simulationResults,
                         histories |-> cardHistories,
                         freedomDate |-> freedomDate']
                   ELSE firstRun
    /\ pc' = "idle"
    /\ UNCHANGED << state, runVars, periodVars, simulationResults, cardHistories >>

Next ==
    \/ StartRun
    \/ BeginPeriod
    \/ Rollover
    \/ SettleMinimums
    \/ StrategyAllocation
    \/ ClosePeriod
    \/ Finish

Spec == Init /\ [][Next]_vars

\* the runs that never pay their debts off
StarvedInit == InitFrom(StarvedProfiles)
StarvedSpec == StarvedInit /\ [][Next]_vars

\* the runs of defaultData
SeedInit == InitFrom(SeedProfiles)
SeedSpec == SeedInit /\ [][Next]_vars

\* the runs of debts that fall due on the same day
TiedInit == InitFrom(TiedProfiles)
TiedSpec == TiedInit /\ [][Next]_vars

\* the runs that fund goals
GoalInit == InitFrom(GoalProfiles)
GoalSpec == GoalInit /\ [][Next]_vars

\* the runs that start within the freedom tolerance
ResidualInit == InitFrom(ResidualProfiles)
ResidualSpec == ResidualInit /\ [][Next]_vars

(* ============================== properties ============================= *)
InRun == pc # "idle"
RunDone == pc = "idle" /\ runs > 0

AllObligations ==
    UNION { { minObligations[id][j] : j \in 1..Len(minObligations[id]) } :
            id \in DOMAIN minObligations }

\* C1: with non-negative initial balances, every working balance is >= 0 in
\* every state of a run: after accrual, after each minimum payment (the
\* balance each payment of the period left behind), after the strategy
\* extras and after the end-of-period snap.
C1_BalancesNonNegative ==
    /\ \A i \in 1..Len(Debts) : Debts[i].balance >= 0
    /\ \A n \in 1..Len(minPayLog) : minPayLog[n].balance >= 0
    /\ \A id \in DOMAIN rowDebtData :
          rowDebtData[id].present => rowDebtData[id].endingBalance >= 0

\* a period in which a flat extra was made after a minimum payment that the
\* balance it retired capped
C1_Witness ==
    /\ pc = "close"
    /\ state.strategy = "flat"
    /\ Len(strategyLog) > 0
    /\ \E n \in 1..Len(minPayLog) :
          minPayLog[n].balance = 0 /\ minPayLog[n].remaining > 0

\* C2: every obligation has 0 <= amountRemaining <= monthlyMin.
C2_RemainingWithinMin ==
    \A ob \in AllObligations :
        0 <= ob.amountRemaining /\ ob.amountRemaining <= ob.monthlyMin

\* a queue that rolled over and holds a partly paid obligation
C2_Witness ==
    \E id \in DOMAIN minObligations :
        /\ Len(minObligations[id]) >= 2
        /\ \E j \in 1..Len(minObligations[id]) :
              /\ minObligations[id][j].amountRemaining > 0
              /\ minObligations[id][j].amountRemaining
                    < minObligations[id][j].monthlyMin

\* C3: every obligation queue is sorted by due date, strictly ascending.
C3_QueueStrictlyAscending ==
    \A id \in DOMAIN minObligations :
        \A j \in 1..(Len(minObligations[id]) - 1) :
            minObligations[id][j].dueDate < minObligations[id][j + 1].dueDate

\* a queue of a debt due on the 31st that rolled over February and December
C3_Witness ==
    \E id \in DOMAIN minObligations :
        /\ \E j \in 1..Len(minObligations[id]) :
              getDate(minObligations[id][j].dueDate) = 28
        /\ \E j \in 1..(Len(minObligations[id]) - 1) :
              /\ getMonth(minObligations[id][j].dueDate) = 11
              /\ getMonth(minObligations[id][j + 1].dueDate) = 0

\* C4: the loop terminates with at most 120 period results: every step of
\* a run advances a measure that the iteration cap bounds (Progress <=
\* 5 * 120 + 4); a period is produced only while aggregate debt > 5 or goal
\* shortfall > 5, so the run stops at the first period end at which both are
\* <= 5 (producing nothing when both hold at the start), and a run that ends
\* short of the cap ends with both <= 5.
BothSettled ==
    TotalBalance(Debts) <= FREE /\ GoalShortfall(currentGoals) <= FREE

Progress ==
    iteration * 5 + (CASE pc = "rollover" -> 0 [] pc = "settle" -> 1
                       [] pc = "strategy" -> 2 [] pc = "close" -> 3
                       [] OTHER -> 4)

C4_LoopTerminates ==
    /\ [](Len(simulationResults) <= MAX_ITERS /\ Progress <= 5 * MAX_ITERS + 4)
    /\ [][(InRun /\ pc' # "idle") => Progress' > Progress]_vars
    /\ [][(pc = "loop" /\ BothSettled)
            => (pc' = "idle" /\ simulationResults' = simulationResults)]_vars
    /\ [](RunDone /\ Len(simulationResults) < MAX_ITERS => BothSettled)

\* a run with goals that stopped short of the cap after some periods
C4_Witness ==
    /\ RunDone
    /\ Len(simulationResults) > 0
    /\ Len(simulationResults) < MAX_ITERS
    /\ Len(currentGoals) > 0

\* C5: "Nunca" is reported iff the run stopped at the 120-iteration cap with
\* aggregate debt > 5 at the end of every period; when some period ended
\* with aggregate debt <= 5, the first such period is reported instead.
FreePeriods ==
    { k \in 1..Len(simulationResults) : simulationResults[k].endBalance <= FREE }

C5_NeverIffCapped ==
    RunDone =>
        /\ (freedomDate.label = "Nunca")
              <=> (Len(simulationResults) = MAX_ITERS /\ FreePeriods = {})
        /\ FreePeriods # {} =>
              /\ freedomDate.label = "date"
              /\ freedomDate.quincenas \in FreePeriods
              /\ \A k \in FreePeriods : freedomDate.quincenas <= k
              /\ freedomDate.date = simulationResults[freedomDate.quincenas].date

\* a run that reported "Nunca"
C5_Witness == RunDone /\ freedomDate.label = "Nunca"

\* C6: when the aggregate balance after the snap is > 5 at the end of a
\* period's debt payments, no goal receives cash in that period.
C6_NoGoalFundingInDebt ==
    [][(pc = "close" /\ TotalBalance(SnapDebts(Debts)) > FREE)
         => (currentGoals' = currentGoals
             /\ simulationResults'[Len(simulationResults')].savingDetails = <<>>)]_vars

\* cash left over with an unfunded goal, a cleared debt and aggregate debt > 5
C6_Witness ==
    /\ pc = "close"
    /\ cashAvailable > SNAP
    /\ GoalShortfall(currentGoals) > FREE
    /\ TotalBalance(SnapDebts(Debts)) > FREE
    /\ \E i \in 1..Len(Debts) : Debts[i].balance = 0

\* C7: minimum settlement never pays out of due-date order: when an
\* obligation receives a minimum payment, no obligation with a strictly
\* earlier due date is still pending on any debt that carries a balance.
C7_PaidInDueDateOrder ==
    \A n \in 1..Len(minPayLog) :
        \A d \in minPayLog[n].pendingBefore : d >= minPayLog[n].dueDate

\* C8: with at least two active debts when strategy allocation runs, the
\* first extra payment goes, under snowball, to an active debt of smallest
\* balance at that moment and, under avalanche, to one of highest rate.
C8_FirstExtraTarget ==
    [][(pc = "strategy" /\ Len(ActiveIdx(Debts)) >= 2 /\ Len(strategyLog') > 0)
         => LET first == Debts[IdxOf(Debts, strategyLog'[1].id)]
                act == { Debts[i] : i \in { j \in 1..Len(Debts) :
                                              Debts[j].balance > EPS } }
            IN  /\ first \in act
                /\ state.strategy = "snowball"
                      => \A d \in act : first.balance <= d.balance
                /\ state.strategy = "avalanche"
                      => \A d \in act : first.rate >= d.rate]_vars

\* a snowball period with two active debts whose first extra went to a debt
\* that is not the first of the list
C8_Witness ==
    /\ pc = "close"
    /\ state.strategy = "snowball"
    /\ Len(strategyLog) >= 2
    /\ strategyLog[1].id # Debts[1].id

\* C9: under flat, every active debt i receives min(C * balance_i / total,
\* balance_i), C being the cash when strategy allocation starts, whatever
\* its position in the list.
C9_FlatProRata ==
    [][(pc = "strategy" /\ state.strategy = "flat" /\ cashAvailable > SNAP)
         => LET act == ActiveIdx(Debts)
                total == SumSeq([n \in 1..Len(act) |-> Debts[act[n]].balance])
            IN  \A n \in 1..Len(act) :
                    Debts[act[n]].balance - Debts'[act[n]].balance
                      = Min2((cashAvailable * Debts[act[n]].balance) \div total,
                             Debts[act[n]].balance)]_vars

\* C10: a second run on the same profile reports what the first reported,
\* and no step of a run changes the profile (state.debts included).
C10_RunsAgree ==
    /\ [](pc = "idle" /\ runs >= 2 =>
            /\ simulationResults = firstRun.results
            /\ cardHistories = firstRun.histories
            /\ freedomDate = firstRun.freedomDate)
    /\ [][state' = state /\ heap'[state.debts] = heap[state.debts]]_vars

\* a second run that produced periods and paid the working balances down
C10_Witness ==
    /\ pc = "idle"
    /\ runs >= 2
    /\ Len(simulationResults) > 0
    /\ heap[currentDebts] # heap[state.debts]

\* C11: the debt-freedom index is set exactly once, at the first period whose
\* end-of-period aggregate debt is <= 5, and keeps that value for the rest of
\* the run whatever the later periods do: in every state it is null (-1)
\* while no period of the run ended with aggregate debt <= 5, and otherwise
\* the 0-based index of the first such period; no later period changes it.
C11_FreedomIndexInv ==
    IF FreePeriods = {} THEN debtFreedomIndex = -1
    ELSE /\ debtFreedomIndex + 1 \in FreePeriods
         /\ \A k \in FreePeriods : debtFreedomIndex + 1 <= k

C11_FreedomIndexSetOnce ==
    [][/\ C11_FreedomIndexInv'
       /\ (debtFreedomIndex # -1 /\ pc # "idle")
             => debtFreedomIndex' = debtFreedomIndex]_vars

\* a run that went on after the freedom period, to a period that ended with
\* another aggregate balance
C11_Witness ==
    /\ InRun
    /\ debtFreedomIndex # -1
    /\ \E k \in 1..Len(simulationResults) :
          /\ k > debtFreedomIndex + 1
          /\ simulationResults[k].endBalance
                # simulationResults[debtFreedomIndex + 1].endBalance

\* the recorded periods whose totals took event i of state.events
CountedIn(i) ==
    { k \in 1..Len(simulationResults) :
        \E n \in 1..Len(simulationResults[k].notes) :
            simulationResults[k].notes[n] = i }

\* sum of the amounts of the events of one type among those a period took
NotedTotal(notes, type) ==
    SumSeq([n \in 1..Len(notes) |->
              IF state.events[notes[n]].type = type
              THEN state.events[notes[n]].amount ELSE 0])

\* C12 as stated: when a run is over, every cash event of the profile has
\* been added to the totals of exactly one period of the run: it was neither
\* counted in two periods nor dropped.
C12_EveryEventCountedOnce ==
    RunDone =>
        \A i \in 1..Len(state.events) : Cardinality(CountedIn(i)) = 1

\* C12, amended: an event is added to the totals of a period exactly when its
\* date is on or after the start date, on or before that period's end and
\* (for a period after the first) after the previous period's end; so an
\* event dated from the start date to the last period end is counted in
\* exactly one period, the first that ends on or after its date, and an
\* event dated before the start date or after the last period of the run is
\* counted in none. The totals of a period are the base income and expenses
\* plus the events counted in it.
C12_EventInFirstWindow ==
    /\ \A i \in 1..Len(state.events) :
          /\ Cardinality(CountedIn(i)) <= 1
          /\ \A k \in 1..Len(simulationResults) :
                k \in CountedIn(i)
                  <=> /\ state.events[i].date >= state.startDate
                      /\ state.events[i].date <= simulationResults[k].date
                      /\ k > 1 => state.events[i].date
                                     > simulationResults[k - 1].date
    /\ \A k \in 1..Len(simulationResults) :
          /\ simulationResults[k].income
                = state.grossIncome - SumSeq(state.deductions)
                  + NotedTotal(simulationResults[k].notes, "income")
          /\ simulationResults[k].expenses
                = SumSeq(state.fixedExpenses) + state.discretionary
                  + NotedTotal(simulationResults[k].notes, "expense")

\* a finished run that counted one event in a later period on whose end date
\* it falls, and left out an event dated after its last period
C12_Witness ==
    /\ RunDone
    /\ \E i \in 1..Len(state.events) :
          \E k \in CountedIn(i) :
              k > 1 /\ state.events[i].date = simulationResults[k].date
    /\ \E i \in 1..Len(state.events) :
          /\ CountedIn(i) = {}
          /\ state.events[i].date
                > simulationResults[Len(simulationResults)].date

\* the last day of the month of d when the day of d is <= 15, the 15th of the
\* following month otherwise
QuincenaRule(d) ==
    LET y == d \div 10000
        m == (d \div 100) % 100
    IN  IF d % 100 <= 15 THEN y * 10000 + m * 100 + DaysInMonth(y, m)
        ELSE IF m = 12 THEN (y + 1) * 10000 + 115
        ELSE y * 10000 + (m + 1) * 100 + 15

\* C13 as stated: in every iteration, the first included, the period end date
\* is the last day of the clock's month when the clock's day-of-month is
\* <= 15 and the 15th of the following month otherwise.
C13_PeriodEndFromClock ==
    [][(pc = "loop" /\ pc' = "rollover")
         => periodEnd' = QuincenaRule(currentDate)]_vars

\* C13, amended: the period end date of an iteration (used by the rollover,
\* as the upper bound of the event window and as the reported date) is the
\* clock itself: the configured start date in the first iteration and, in
\* every later one, the last day of the month of the previous period end
\* when that end's day-of-month is <= 15, the 15th of the following month
\* otherwise.
C13_PeriodEndIsClock ==
    [][/\ (pc = "loop" /\ pc' = "rollover")
            => /\ periodEnd' = currentDate
               /\ periodEnd' = IF iteration = 0 THEN state.startDate
                               ELSE QuincenaRule(periodEnd)
               /\ \A n \in 1..Len(eventLog') :
                     state.events[eventLog'[n]].date <= periodEnd'
       /\ (pc = "close" /\ pc' = "loop")
            => simulationResults'[Len(simulationResults')].date = periodEnd
       ]_vars

\* a third or later period, ending in the year after the start date, that
\* counted an event
C13_Witness ==
    /\ pc = "rollover"
    /\ iteration > 2
    /\ getFullYear(periodEnd) > getFullYear(state.startDate)
    /\ eventLog # <<>>

\* the debts with balance > 0.5 when the strategy allocation starts
ActiveIds == { Debts[i].id : i \in { j \in 1..Len(Debts) : Debts[j].balance > EPS } }

C15_RemainderCarriedSigned ==
    [][(pc = "loop" /\ pc' = "rollover" /\ iteration > 0)
         => initialCash' = periodIncome' - periodExpense' + cashAvailable]_vars

\* C15, amended: the cash available before allocation in period n+1 is the
\* period's income minus its expenses plus the cash that remained at the end
\* of period n when that remainder is positive, and plus nothing when period
\* n ended with a deficit; the first period has nothing carried in. The
\* carried amount is the pocket reported for period n.
C15_PositiveRemainderCarried ==
    [][/\ (pc = "loop" /\ pc' = "rollover")
            => /\ cashAvailable' = initialCash'
               /\ initialCash' = periodIncome' - periodExpense'
                    + (IF iteration = 0 \/ cashAvailable <= 0 THEN 0
                       ELSE cashAvailable)
       /\ (pc = "close" /\ pc' = "loop")
            => simulationResults'[Len(simulationResults')].pocket
                  = IF cashAvailable' > 0 THEN cashAvailable' ELSE 0
       ]_vars

\* a period with cash to allocate that follows one that ended with a deficit
C15_Witness ==
    /\ pc = "rollover"
    /\ iteration > 1
    /\ simulationResults[iteration - 1].initialCash < 0
    /\ simulationResults[iteration - 1].pocket = 0
    /\ initialCash > 0

\* C16: in every period each debt with balance > 0.5 is charged, on its
\* balance at the start of the period, the interest balance x (rate/100)/24
\* and the surcharge 0.16 x interest, before any payment of the period and
\* whatever the period's cash (cash <= 0 included); a debt with balance
\* <= 0.5 is charged nothing. Amounts are in cents and rates in tenths of a
\* percent, so the interest is balance x rate / 24000.
C16_AccrualBeforePayments ==
    [][(pc = "loop" /\ pc' = "rollover")
         => /\ minPayLog' = <<>>
            /\ strategyLog' = <<>>
            /\ \A i \in 1..Len(Debts) :
                  LET b == Debts[i].balance
                      interest == (b * Debts[i].rate) \div 24000
                      surcharge == (interest * 16) \div 100
                      rec == rowDebtData'[Debts[i].id]
                  IN  IF b > EPS
                      THEN /\ heap'[currentDebts][i].balance
                                = b + interest + surcharge
                           /\ rec.present
                           /\ rec.startingBalance = b
                           /\ rec.interest = interest
                           /\ rec.iva = surcharge
                           /\ rec.minPaid = 0 /\ rec.extraPaid = 0
                      ELSE /\ heap'[currentDebts][i].balance = 0
                           /\ ~rec.present
       ]_vars

\* a period with no cash at all in which one debt was charged interest and
\* surcharge and a debt without balance was charged nothing
C16_Witness ==
    /\ pc = "rollover"
    /\ cashAvailable <= 0
    /\ \E i \in 1..Len(Debts) :
          /\ rowDebtData[Debts[i].id].present
          /\ rowDebtData[Debts[i].id].iva > 0
    /\ \E i \in 1..Len(Debts) : ~rowDebtData[Debts[i].id].present

\* interest plus surcharge charged to all debts in recorded period k
PeriodCharge(k) ==
    SumSeq([i \in 1..Len(Debts) |->
              cardHistories[Debts[i].id][k].interest
                + cardHistories[Debts[i].id][k].iva])

\* the balances the debts had before the end-of-period snap of period k
UnsnappedBalance(k) ==
    SumSeq([i \in 1..Len(Debts) |-> cardHistories[Debts[i].id][k].endingBalance])

StartAggregate == TotalBalance(heap[state.debts])

BalanceRisesEveryPeriod ==
    \A k \in 2..Len(simulationResults) :
        simulationResults[k].endBalance > simulationResults[k - 1].endBalance

\* C17 as stated: when in every period of a finished run the interest plus
\* surcharge charged to all debts exceeded the cash available for the period,
\* the run reached the 120-iteration cap, reported "Nunca", and each period's
\* reported aggregate ending balance is above the previous period's.
C17_StarvedRunRises ==
    (/\ RunDone
     /\ Len(simulationResults) > 0
     /\ \A k \in 1..Len(simulationResults) :
           PeriodCharge(k) > simulationResults[k].initialCash)
    => /\ Len(simulationResults) = MAX_ITERS
       /\ freedomDate.label = "Nunca"
       /\ BalanceRisesEveryPeriod

\* C17, amended: when the debts start above 5 in aggregate, with no balance
\* in (0, 0.5], and in every period of a finished run the interest plus
\* surcharge charged exceeded both 0 and the cash available and no balance
\* was zeroed by the end-of-period snap, the run reached the 120-iteration
\* cap, reported "Nunca", and the reported aggregate ending balance rose in
\* every period, the first (against the starting balances) included.
C17_StarvedRunRisesUnsnapped ==
    (/\ RunDone
     /\ StartAggregate > FREE
     /\ \A i \in 1..Len(heap[state.debts]) :
           heap[state.debts][i].balance = 0 \/ heap[state.debts][i].balance > EPS
     /\ \A k \in 1..Len(simulationResults) :
           /\ PeriodCharge(k) > 0
           /\ PeriodCharge(k) > simulationResults[k].initialCash
           /\ UnsnappedBalance(k) = simulationResults[k].endBalance)
    => /\ Len(simulationResults) = MAX_ITERS
       /\ freedomDate.label = "Nunca"
       /\ simulationResults[1].endBalance > StartAggregate
       /\ BalanceRisesEveryPeriod

\* a finished run of 120 periods, each with cash to pay with but less than
\* the interest and surcharge charged, and no balance snapped
C17_Witness ==
    /\ RunDone
    /\ StartAggregate > FREE
    /\ Len(simulationResults) = MAX_ITERS
    /\ \A k \in 1..Len(simulationResults) :
          /\ simulationResults[k].initialCash > 0
          /\ PeriodCharge(k) > simulationResults[k].initialCash
          /\ UnsnappedBalance(k) = simulationResults[k].endBalance

\* the debts of the profile whose monthly minimum is 1000.00, in a state right
\* after the minimum settlement of the second period of a run whose cash
\* was below that minimum in both periods
InArrears(i) ==
    /\ pc = "strategy"
    /\ iteration = 2
    /\ heap[state.debts][i].monthlyMin = DebtE.monthlyMin
    /\ simulationResults[1].initialCash < DebtE.monthlyMin
    /\ initialCash < DebtE.monthlyMin

\* the second obligation of the debt is still owed and the period's breakdown
\* requires more than was paid
ArrearsShown(id) ==
    /\ Len(minObligations[id]) >= 2
    /\ minObligations[id][2].amountRemaining > 0
    /\ \E n \in 1..Len(minDetails) :
          /\ minDetails[n].id = id
          /\ minDetails[n].requiredBefore > minDetails[n].paid

\* C18 as stated: for a debt whose monthly minimum is 1000 and a cash below
\* that minimum in two consecutive periods, after the second period the
\* debt's second obligation still has amountRemaining > 0 and the minimum
\* breakdown of that period has requiredBefore > paid.
C18_ArrearsAfterTwoPeriods ==
    \A i \in 1..Len(heap[state.debts]) :
        InArrears(i) => ArrearsShown(heap[state.debts][i].id)

\* C18, amended: the same, for a debt whose first due date is before the end
\* of the second period and which has a balance > 0.5 when that period
\* starts, so that the rollover of the second period gives it a second
\* obligation.
C18_ArrearsOnceDue ==
    \A i \in 1..Len(heap[state.debts]) :
        (/\ InArrears(i)
         /\ minObligations[heap[state.debts][i].id][1].dueDate < periodEnd
         /\ rowDebtData[heap[state.debts][i].id].present)
        => ArrearsShown(heap[state.debts][i].id)

\* such a debt, whose first obligation was paid off in the second period and
\* whose second obligation took a part of the period's cash
C18_Witness ==
    \E i \in 1..Len(heap[state.debts]) :
        LET id == heap[state.debts][i].id
        IN  /\ InArrears(i)
            /\ minObligations[id][1].dueDate < periodEnd
            /\ rowDebtData[id].present
            /\ minObligations[id][1].amountRemaining = 0
            /\ Len(minObligations[id]) = 2
            /\ minObligations[id][2].amountRemaining
                  < minObligations[id][2].monthlyMin

\* the first minimum obligation of Plata is fully paid by the minimum
\* settlement of period 1
PlataRetiredInPeriodOne ==
    (pc = "strategy" /\ iteration = 1)
    => minObligations[Plata.id][1].amountRemaining = 0

\* the first strategy extra payment of the run goes to Plata
PlataFirstStrategyTarget ==
    (/\ pc = "close"
     /\ strategyLog # <<>>
     /\ \A k \in 1..Len(simulationResults) :
           simulationResults[k].strategyDetails = <<>>)
    => strategyLog[1].id = Plata.id

\* C19 as stated: with the seed data, for every start date, the minimum
\* settlement of period 1 fully retires Plata's first 400 obligation, and
\* Plata is the first debt to appear in a strategy extra-payment log.
C19_SeedPlataFirst ==
    PlataRetiredInPeriodOne /\ PlataFirstStrategyTarget


\* the seed debts whose first obligation is due before the first one of Plata
DueBeforePlata ==
    { id \in { Didi.id, Visa40.id } :
        minObligations[id][1].dueDate < minObligations[Plata.id][1].dueDate }

\* the first minimums of the debts due before Plata, and the one of Plata
MinimumsUpToPlata ==
    Plata.monthlyMin
    + SumOver([id \in DueBeforePlata |-> minObligations[id][1].monthlyMin],
              DueBeforePlata)

\* C19, amended: with the seed data, on every start date where the cash of
\* period 1 covers the first minimums of the debts due before Plata plus
\* Plata's 400, the minimum settlement of period 1 fully retires Plata's
\* first obligation; and on every start date Plata is the first debt to
\* appear in a strategy extra-payment log.
C19_SeedPlataFirstWhenCovered ==
    /\ (pc = "strategy" /\ iteration = 1 /\ initialCash >= MinimumsUpToPlata)
       => minObligations[Plata.id][1].amountRemaining = 0
    /\ PlataFirstStrategyTarget

\* period 1 of a seed run that settles Visa 40 and Didi before Plata, retires
\* the 400 of Plata, and whose strategy log starts with Plata
C19_Witness ==
    /\ pc = "close"
    /\ iteration = 1
    /\ DueBeforePlata = { Didi.id, Visa40.id }
    /\ minObligations[Plata.id][1].monthlyMin = Plata.monthlyMin
    /\ minObligations[Plata.id][1].amountRemaining = 0
    /\ strategyLog # <<>>
    /\ strategyLog[1].id = Plata.id


\* what is owed on a balance over a month: the balance, a month of interest
\* and the surcharge on that interest
OwedOverMonth(balance, rate) ==
    balance + (balance * rate) \div 12000
            + (((balance * rate) \div 12000) * 16) \div 100

\* the regulatory floor of the specification, written out
RegulatoryFloor(balance, rate, creditLimit) ==
    IF balance <= 0 \/ rate <= 0 THEN 0
    ELSE LET optionA == (balance * 15) \div 1000
                        + (OwedOverMonth(balance, rate) - balance)
             optionB == IF creditLimit > 0 THEN (creditLimit * 125) \div 10000
                        ELSE 0
         IN  Min2(Max2(optionA, optionB), OwedOverMonth(balance, rate))

\* an obligation created for `debt` carries the floor of the debt's balance
\* and the binding minimum made of it
ObligationFromBalance(ob, debt) ==
    LET floor == RegulatoryFloor(debt.balance, debt.rate, debt.creditLimit)
    IN  /\ ob.banxicoBaseMin = floor
        /\ ob.monthlyMin = IF debt.monthlyMin > 0 THEN Max2(debt.monthlyMin, floor)
                           ELSE floor
        /\ ob.amountRemaining = ob.monthlyMin
        /\ ob.monthlyMin >= floor
        /\ floor <= Max2(0, OwedOverMonth(debt.balance, debt.rate))

\* the obligations of the queues `after` that are not in the queues `before`
CreatedObligations(before, after, id) ==
    IF id \in DOMAIN before
    THEN { j \in 1..Len(after[id]) : j > Len(before[id]) }
    ELSE 1..Len(after[id])

\* C20: every obligation's monthlyMin, at seeding and at every rollover, is
\* max(userMin, floor) when the user's minimum is > 0 and floor otherwise,
\* with floor = min(max(optionA, optionB), balance + interest + surcharge)
\* taken from the debt's balance when the obligation is created (0 when the
\* balance or the rate is <= 0); monthlyMin is never below the floor and the
\* floor never exceeds what is owed.
C20_MonthlyMinFromFloor ==
    [][/\ pc = "idle" /\ pc' # "idle"
          => \A i \in 1..Len(Debts') :
                \A j \in 1..Len(minObligations'[Debts'[i].id]) :
                   ObligationFromBalance(minObligations'[Debts'[i].id][j], Debts'[i])
       /\ pc = "rollover"
          => \A i \in 1..Len(Debts) :
                \A j \in CreatedObligations(minObligations, minObligations',
                                            Debts[i].id) :
                   ObligationFromBalance(minObligations'[Debts[i].id][j], Debts[i])
      ]_vars

\* an obligation created by a rollover whose floor is the cap, what is owed,
\* and an earlier one of the same debt whose floor is the share of the limit
C20_Witness ==
    /\ pc = "settle"
    /\ \E i \in 1..Len(Debts) :
          LET obs == minObligations[Debts[i].id]
          IN  /\ Len(obs) >= 2
              /\ Debts[i].balance > 0
              /\ obs[Len(obs)].banxicoBaseMin
                    = OwedOverMonth(Debts[i].balance, Debts[i].rate)
              /\ obs[Len(obs)].amountRemaining = obs[Len(obs)].monthlyMin
              /\ obs[1].banxicoBaseMin = (Debts[i].creditLimit * 125) \div 10000


\* the months elapsed since year 0 at the date d
MonthNumber(d) == getFullYear(d) * 12 + getMonth(d)

LatestDue(obs) ==
    CHOOSE d \in { obs[j].dueDate : j \in 1..Len(obs) } :
        \A j \in 1..Len(obs) : d >= obs[j].dueDate

\* the obligation at place j of the queue `after` was appended to the j - 1
\* obligations before it in a period ending at pEnd
AppendedInOrder(after, j, debt, pEnd) ==
    LET prev == LatestDue(SubSeq(after, 1, j - 1))
        due == after[j].dueDate
    IN  /\ pEnd > prev
        /\ debt.balance > EPS
        /\ MonthNumber(due) = MonthNumber(prev) + 1
        /\ getDate(due)
              = Min2(getDueDayOrDefault(debt),
                     DaysInMonth(getFullYear(due), getMonth(due) + 1))

\* C21: the rollover appends an obligation to a queue only in a period whose
\* end is later than the queue's latest due date and only while the debt's
\* balance after interest is > 0.5; each appended obligation is due one
\* calendar month after the previous one, on day min(dueDay, days of that
\* month); after the rollover the latest due date of every debt with a
\* balance > 0.5 and a non-empty queue is on or after the period end.
C21_RolloverByMonth ==
    [][pc = "rollover"
       => \A i \in 1..Len(Debts) :
             LET before == minObligations[Debts[i].id]
                 after == minObligations'[Debts[i].id]
             IN  /\ Len(after) >= Len(before)
                 /\ SubSeq(after, 1, Len(before)) = before
                 /\ \A j \in (Len(before) + 1)..Len(after) :
                       AppendedInOrder(after, j, Debts[i], periodEnd)
                 /\ (Debts[i].balance > EPS /\ Len(after) > 0)
                       => LatestDue(after) >= periodEnd
      ]_vars

\* a rollover has just appended an obligation whose day is the last of a
\* month shorter than the debt's due day
C21_Witness ==
    /\ pc = "settle"
    /\ \E i \in 1..Len(Debts) :
          LET obs == minObligations[Debts[i].id]
          IN  /\ Len(obs) >= 2
              /\ obs[Len(obs) - 1].dueDate < periodEnd
              /\ obs[Len(obs) - 1].dueDate >= prevPeriodEnd
              /\ obs[Len(obs)].dueDate >= periodEnd
              /\ getDate(obs[Len(obs)].dueDate) < getDueDayOrDefault(Debts[i])


\* debts[i] has a pending obligation and a balance when the settlement starts
Eligible(i) ==
    ActiveObs(minObligations[Debts[i].id]) # {} /\ Debts[i].balance > EPS

EarliestUnresolved(i) ==
    LET obs == minObligations[Debts[i].id]
    IN  EarliestDue(obs, ActiveObs(obs))

OutstandingMin(i) ==
    LET obs == minObligations[Debts[i].id]
    IN  SumOver([j \in ActiveObs(obs) |-> obs[j].amountRemaining], ActiveObs(obs))

\* debts[a] is served before debts[b]: earlier unresolved due date, then
\* larger outstanding minimum, then the order of declaration
RankedBefore(a, b) ==
    \/ EarliestUnresolved(a) < EarliestUnresolved(b)
    \/ /\ EarliestUnresolved(a) = EarliestUnresolved(b)
       /\ OutstandingMin(a) > OutstandingMin(b)
    \/ /\ EarliestUnresolved(a) = EarliestUnresolved(b)
       /\ OutstandingMin(a) = OutstandingMin(b)
       /\ a < b

\* C22: in the minimum settlement the debts are served by earliest unresolved
\* due date ascending, ties by larger total outstanding minimum first: a debt
\* receives a minimum payment in a period only if every debt ranked before
\* it has had, in that period, all its pending obligations retired or its
\* balance reduced to 0.
C22_MostUrgentFirst ==
    [][pc = "settle"
       => /\ \A n \in 1..Len(minPayLog') :
                Eligible(IdxOf(Debts, minPayLog'[n].id))
          /\ \A n \in 1..Len(minPayLog') : \A m \in (n + 1)..Len(minPayLog') :
                minPayLog'[n].id # minPayLog'[m].id
                => RankedBefore(IdxOf(Debts, minPayLog'[n].id),
                                IdxOf(Debts, minPayLog'[m].id))
          /\ \A m \in 1..Len(minPayLog') :
                \A a \in 1..Len(Debts) :
                   (Eligible(a) /\ RankedBefore(a, IdxOf(Debts, minPayLog'[m].id)))
                   => \/ Debts'[a].balance = 0
                      \/ \A j \in ActiveObs(minObligations[Debts[a].id]) :
                            minObligations'[Debts[a].id][j].amountRemaining = 0
      ]_vars

\* a settlement that paid two debts due on the same day, the one declared
\* later first because its outstanding minimum is larger
C22_Witness ==
    /\ pc = "strategy"
    /\ \E n \in 1..Len(minPayLog) : \E m \in (n + 1)..Len(minPayLog) :
          /\ minPayLog[n].id # minPayLog[m].id
          /\ minPayLog[n].dueDate = minPayLog[m].dueDate
          /\ IdxOf(Debts, minPayLog[n].id) > IdxOf(Debts, minPayLog[m].id)
          /\ minPayLog[n].pay > minPayLog[m].pay


\* the extra paid to debts[i] by the strategy step
ExtraPaid(i) == Debts[i].balance - Debts'[i].balance

\* the cash left for the debt at place n of the strategy order
CashLeftFor(order, n) ==
    cashAvailable - SumOver([k \in 1..(n - 1) |-> ExtraPaid(order[k])], 1..(n - 1))

\* what the sequential strategies have in common, whatever the amount each
\* debt is paid: one partial payment at most, the debts ahead of a paid debt
\* are paid down to 0, the other debts are untouched and the cash not paid
\* stays in the pool
SequentialShape(order) ==
    /\ Cardinality({ n \in 1..Len(order) :
                       ExtraPaid(order[n]) > 0 /\ Debts'[order[n]].balance > 0 }) <= 1
    /\ \A n \in 1..Len(order) : \A k \in 1..(n - 1) :
          ExtraPaid(order[n]) > 0 => Debts'[order[k]].balance = 0
    /\ \A i \in 1..Len(Debts) :
          (\A n \in 1..Len(order) : order[n] # i) => ExtraPaid(i) = 0
    /\ cashAvailable' = CashLeftFor(order, Len(order) + 1)

\* C23 as stated: under the sequential strategies each debt in strategy order
\* is paid min(remaining cash, its balance) (nothing when no cash remains); at
\* most one debt receives a partial extra payment, every debt ahead of it is
\* paid down to 0, and the cash left stays in the pool.
C23_SequentialPaysAllCash ==
    [][(pc = "strategy" /\ state.strategy # "flat")
       => LET order == OrderedDebts(state.strategy, Debts)
          IN  /\ \A n \in 1..Len(order) :
                    ExtraPaid(order[n])
                      = Max2(0, Min2(CashLeftFor(order, n), Debts[order[n]].balance))
              /\ SequentialShape(order)
      ]_vars

\* C23, amended: each debt in strategy order is paid min(remaining cash, its
\* balance) while the remaining cash is above 1 and nothing once it is 1 or
\* less; at most one debt receives a partial extra payment, every debt ahead
\* of a paid debt is paid down to 0, and the cash left stays in the pool.
C23_SequentialPaysAboveOne ==
    [][(pc = "strategy" /\ state.strategy # "flat")
       => LET order == OrderedDebts(state.strategy, Debts)
          IN  /\ \A n \in 1..Len(order) :
                    ExtraPaid(order[n])
                      = IF CashLeftFor(order, n) > SNAP
                        THEN Min2(CashLeftFor(order, n), Debts[order[n]].balance)
                        ELSE 0
              /\ SequentialShape(order)
      ]_vars

\* a sequential allocation that paid one debt off and a second one in part
C23_Witness ==
    /\ pc = "close"
    /\ state.strategy # "flat"
    /\ Len(strategyLog) >= 2
    /\ Debts[IdxOf(Debts, strategyLog[1].id)].balance = 0
    /\ Debts[IdxOf(Debts, strategyLog[Len(strategyLog)].id)].balance > 0
    /\ cashAvailable = 0


\* goal funding is permitted in the period that is being closed
FundingPermitted ==
    /\ pc = "close"
    /\ TotalBalance(SnapDebts(Debts)) <= FREE
    /\ Len(currentGoals) > 0

\* goal a is funded before goal b: lower priority number, then declaration
GoalAhead(a, b) ==
    \/ currentGoals[a].priority < currentGoals[b].priority
    \/ currentGoals[a].priority = currentGoals[b].priority /\ a < b

Shortfall(i) == currentGoals[i].targetAmount - currentGoals[i].saved
Funded(i) == currentGoals'[i].saved - currentGoals[i].saved

\* the cash still available when the turn of goal i comes
CashLeftForGoal(i) ==
    LET ahead == { k \in 1..Len(currentGoals) : GoalAhead(k, i) }
    IN  cashAvailable - SumOver([k \in ahead |-> Funded(k)], ahead)

\* C24 as stated: when goal funding is permitted, goals are funded in priority
\* order (ties in declaration order); each goal receives min(its remaining
\* shortfall, cash still available); a goal receives cash only after every
\* goal ahead of it has been funded to its target; funding continues until
\* cash or shortfalls are exhausted; funding never raises a goal's saved
\* amount above its target.
C24_GoalWaterfall ==
    [][FundingPermitted
       => /\ \A i \in 1..Len(currentGoals) :
                /\ Funded(i) = Max2(0, Min2(Shortfall(i), CashLeftForGoal(i)))
                /\ Funded(i) > 0
                   => /\ currentGoals'[i].saved <= currentGoals[i].targetAmount
                      /\ \A k \in 1..Len(currentGoals) :
                            GoalAhead(k, i)
                            => currentGoals'[k].saved >= currentGoals[k].targetAmount
          /\ \/ cashAvailable' <= 0
             \/ \A i \in 1..Len(currentGoals) :
                   currentGoals'[i].saved >= currentGoals[i].targetAmount
      ]_vars

\* C24, amended: when goal funding is permitted, goals are funded in priority
\* order (ties in declaration order); each goal whose shortfall is above 1
\* receives min(its shortfall, cash still available) while that cash is above
\* 1, and nothing otherwise; a goal receives cash only after every goal ahead
\* of it is within 1 of its target; funding continues until the cash is 1 or
\* less or every shortfall is 1 or less; funding never raises a goal's saved
\* amount above its target.
C24_GoalWaterfallAboveOne ==
    [][FundingPermitted
       => /\ \A i \in 1..Len(currentGoals) :
                /\ Funded(i) = IF Shortfall(i) > SNAP /\ CashLeftForGoal(i) > SNAP
                               THEN Min2(Shortfall(i), CashLeftForGoal(i))
                               ELSE 0
                /\ Funded(i) > 0
                   => /\ currentGoals'[i].saved <= currentGoals[i].targetAmount
                      /\ \A k \in 1..Len(currentGoals) :
                            GoalAhead(k, i)
                            => currentGoals'[k].saved
                                 >= currentGoals[k].targetAmount - SNAP
          /\ cashAvailable' = cashAvailable
                - SumSeq([i \in 1..Len(currentGoals) |-> Funded(i)])
          /\ \/ cashAvailable' <= SNAP
             \/ \A i \in 1..Len(currentGoals) :
                   currentGoals'[i].saved >= currentGoals[i].targetAmount - SNAP
      ]_vars

\* a period has just funded the goal of priority 1, declared second, up to
\* its target and the goal of priority 2 with the rest of the cash
C24_Witness ==
    /\ pc = "loop"
    /\ Len(simulationResults) > 0
    /\ LET saving == simulationResults[Len(simulationResults)].savingDetails
       IN  /\ Len(saving) = 2
           /\ saving[1].id = currentGoals[2].id
           /\ currentGoals[2].priority < currentGoals[1].priority
           /\ currentGoals[2].saved = currentGoals[2].targetAmount
           /\ currentGoals[1].saved < currentGoals[1].targetAmount
           /\ carryOver = 0


\* at a period end every balance is 0 or at least 1
SnappedAtPeriodEnd ==
    (pc = "loop" /\ Len(simulationResults) > 0)
    => \A i \in 1..Len(Debts) : Debts[i].balance = 0 \/ Debts[i].balance >= SNAP

\* a step of a run leaves debts[i], cleared before it, as it is: no interest,
\* no payment and no obligation
StaysCleared(i) ==
    LET id == Debts[i].id
    IN  /\ Debts'[i].balance = 0
        /\ minObligations'[id] = minObligations[id]
        /\ pc = "loop" /\ pc' = "rollover"
           => ~rowDebtData'[id].present /\ minPaidThisPeriod'[id] = 0
        /\ pc \in { "rollover", "settle", "strategy" }
           => /\ rowDebtData'[id] = rowDebtData[id]
              /\ minPaidThisPeriod'[id] = minPaidThisPeriod[id]
        /\ pc = "settle" => \A n \in 1..Len(minPayLog') : minPayLog'[n].id # id
        /\ pc = "strategy"
           => \A n \in 1..Len(strategyLog') : strategyLog'[n].id # id
        /\ pc = "close"
           => LET h == cardHistories'[id][Len(cardHistories'[id])]
              IN  h.interest = 0 /\ h.iva = 0 /\ h.minPaid = 0 /\ h.extraPaid = 0

\* C25: a cleared debt is terminal: at every period end each balance is
\* exactly 0 or >= 1, and a debt whose balance is 0 at a period end stays at
\* 0 in every later period, accrues no interest, receives no minimum or
\* extra payment and gets no new obligation.
C25_ClearedIsTerminal ==
    /\ []SnappedAtPeriodEnd
    /\ [][(pc = "loop" /\ Len(simulationResults) > 0)
          => \A i \in 1..Len(Debts) :
                Debts[i].balance = 0 => StaysCleared(i)]_vars
    /\ [][(pc \in { "rollover", "settle", "strategy", "close" })
          => \A i \in 1..Len(Debts) :
                (Debts[i].balance = 0 /\ ~rowDebtData[Debts[i].id].present)
                => StaysCleared(i)]_vars

\* a debt that had a balance is at 0 since an earlier period end, while
\* another debt has just been paid a minimum and an extra
C25_Witness ==
    /\ pc = "close"
    /\ Len(minPayLog) > 0
    /\ Len(strategyLog) > 0
    /\ \E i \in 1..Len(Debts) :
          LET id == Debts[i].id
          IN  /\ Debts[i].balance = 0
              /\ ~rowDebtData[id].present
              /\ Len(cardHistories[id]) >= 2
              /\ cardHistories[id][1].startingBalance > 0
              /\ Len(minObligations[id]) > 0


\* the minimum breakdown reported for the period that has just ended
LastMinDetails == simulationResults[Len(simulationResults)].minDetails

\* C26: a debt whose balance is 0 is never reported as being in arrears: in
\* every period's minimum breakdown, a debt with balance 0 at the period end
\* has remainingAfter (unpaid amount of the obligations due on or before the
\* period end) <= 0.5.
C26_ClearedDebtNotInArrears ==
    (pc = "loop" /\ Len(simulationResults) > 0)
    => \A n \in 1..Len(LastMinDetails) :
          Debts[IdxOf(Debts, LastMinDetails[n].id)].balance = 0
          => LastMinDetails[n].remainingAfter <= EPS


\* C27: once the freedom period has been recorded, the aggregate debt
\* balance is <= 5 at the end of every later period of the run, so the gate
\* of goal funding never closes again.
C27_FreedomIsKept ==
    (pc = "loop" /\ debtFreedomIndex # -1) => debtRemaining <= FREE


\* the history entry of debts[i] for the period that has just ended
LastEntry(i) ==
    cardHistories[Debts[i].id][Len(cardHistories[Debts[i].id])]

\* C28: every per-debt history entry balances: endingBalance =
\* startingBalance + interest + iva - minPaid - extraPaid; the entry's
\* endingBalance is the debt's balance at the end of that period, after the
\* snap-to-zero; and the endingBalance of all debts for a period add up to
\* the endBalance of that period's result.
C28_HistoryBalances ==
    (pc = "loop" /\ Len(simulationResults) > 0)
    => /\ \A i \in 1..Len(Debts) :
             /\ LastEntry(i).endingBalance
                   = LastEntry(i).startingBalance + LastEntry(i).interest
                     + LastEntry(i).iva - LastEntry(i).minPaid
                     - LastEntry(i).extraPaid
             /\ LastEntry(i).endingBalance = Debts[i].balance
       /\ SumSeq([i \in 1..Len(Debts) |-> LastEntry(i).endingBalance])
             = simulationResults[Len(simulationResults)].endBalance


\* the result of the period that has just ended, and what it paid out
LastResult == simulationResults[Len(simulationResults)]
MinimumsPaid == SumSeq([n \in 1..Len(minPayLog) |-> minPayLog[n].pay])
ExtrasPaid ==
    SumSeq([n \in 1..Len(LastResult.strategyDetails) |->
              LastResult.strategyDetails[n].amount])
GoalsFunded ==
    SumSeq([n \in 1..Len(LastResult.savingDetails) |->
              LastResult.savingDetails[n].amount])

\* C29: cash is conserved and never overdrawn within a period: the minimum
\* payments, strategy extras and goal contributions of a period never exceed
\* max(0, cash available before allocation); when that cash is >= 0 it equals
\* minimums + extras + goal contributions + pocket; and the pocket carried to
\* the next period is >= 0.
C29_CashConserved ==
    (pc = "loop" /\ Len(simulationResults) > 0)
    => /\ MinimumsPaid + ExtrasPaid + GoalsFunded
             <= Max2(0, LastResult.initialCash)
       /\ MinimumsPaid
             = SumSeq([n \in 1..Len(LastResult.minDetails) |->
                         LastResult.minDetails[n].paid])
       /\ LastResult.initialCash >= 0
             => LastResult.initialCash
                  = MinimumsPaid + ExtrasPaid + GoalsFunded + LastResult.pocket
       /\ LastResult.pocket >= 0
       /\ carryOver = LastResult.pocket

\* a period that paid a minimum, an extra and a goal contribution and left
\* a pocket
C29_Witness ==
    /\ pc = "loop"
    /\ Len(simulationResults) > 0
    /\ MinimumsPaid > 0
    /\ ExtrasPaid > 0
    /\ GoalsFunded > 0
    /\ carryOver > 0


\* C30: minimums take precedence over extras: in any period in which a
\* strategy extra payment is made, every obligation in the queue of every
\* debt that still has a balance > 0.5 after the settlement, an obligation
\* not yet due at the period end included, has amountRemaining <= 0.5.
C30_MinimumsBeforeExtras ==
    [][(pc = "strategy" /\ strategyLog' # <<>>)
       => \A i \in 1..Len(Debts) :
             Debts[i].balance > EPS
             => \A j \in 1..Len(minObligations[Debts[i].id]) :
                   minObligations[Debts[i].id][j].amountRemaining <= EPS
      ]_vars

\* an extra has been paid in a period whose settlement paid an obligation
\* that is not yet due, on a debt that still has a balance
C30_Witness ==
    /\ pc = "close"
    /\ strategyLog # <<>>
    /\ \E n \in 1..Len(minPayLog) :
          /\ minPayLog[n].dueDate > periodEnd
          /\ minPayLog[n].remaining = 0
          /\ minPayLog[n].balance > EPS
          /\ Debts[IdxOf(Debts, minPayLog[n].id)].balance > EPS

====
